---------------------------- MODULE Spec2Model ----------------------------
(***************************************************************************)
(* Model of the RedELK alarm daemon (scripts/daemon.py): module discovery  *)
(* (load_modules), the enrichment and alarm run stages (run_enrichments,   *)
(* run_alarms) and the dispatch stage (process_alarms), executed once, in  *)
(* that order, by the __main__ block.                                      *)
(*                                                                         *)
(* The plugins (modules.<name>.module) and the helpers imported from       *)
(* modules.helpers are the environment: every call into them returns a     *)
(* value drawn from a small set or raises.                                 *)
(***************************************************************************)
EXTENDS Integers, Sequences, FiniteSets, TLC

VARIABLES
    pc,              \* position of the single thread: the function being executed
    idx,             \* position of the running for-loop in its iterable
    conn,            \* position of the inner connector loop of process_alarms
    module_folders,  \* os.listdir('./modules/')
    disk,            \* what each listed entry is on disk and what its module.py exposes
    alarms,          \* config.alarms
    notifications,   \* config.notifications
    aD, cD, eD,      \* the three descriptor dictionaries, in insertion order
    r,               \* the local r of process_alarms: the copy that is grouped and sent
    exc,             \* the function an uncaught exception left, ending the process
    log,             \* history: every call made to a plugin or helper, in order
    sent             \* history: every ResultSet handed to a connector's send_alarm

vars == <<pc, idx, conn, module_folders, disk, alarms, notifications, aD, cD, eD, r, exc,
          log, sent>>

-----------------------------------------------------------------------------
(* Bounds *)

\* entries of the modules directory in the discovery specification
NumCand == 3
\* entries of the modules directory in the pipeline specification
NumMods == 3
\* modules of one type in the pipeline specification, at most
MaxPerRole == 2
\* hits a module's run() returns at most
MaxHits == 2

NamePool == <<"m1", "m2", "m3", "m4", "m5", "m6">>
PyCache == "__pycache__"

-----------------------------------------------------------------------------
(* The plugin surface found on disk for one directory entry *)

RoleTypes == {"redelk_alarm", "redelk_connector", "redelk_enrich"}

\* the tag a plugin declares in info['submodule']
SubmoduleOf(module) == "sub_" \o module

Surface(isdir, imports, hasInfo, infoIsMap, type, hasModule, hasRole) ==
    [isdir |-> isdir, imports |-> imports, hasInfo |-> hasInfo,
     infoIsMap |-> infoIsMap, type |-> type, hasModule |-> hasModule,
     hasRole |-> hasRole]

\* a complete plugin of the given type
Plugin(type) == Surface(TRUE, TRUE, TRUE, TRUE, type, TRUE, TRUE)

Surfaces ==
    { Plugin(t) : t \in RoleTypes } \cup
    { Surface(TRUE, TRUE, TRUE, TRUE, t, TRUE, FALSE) : t \in RoleTypes } \cup
    { Surface(FALSE, TRUE, TRUE, TRUE, "redelk_alarm", TRUE, TRUE),   \* a plain file
      Surface(TRUE, FALSE, TRUE, TRUE, "redelk_alarm", TRUE, TRUE),   \* import raises
      Surface(TRUE, TRUE, FALSE, TRUE, "redelk_alarm", TRUE, TRUE),   \* no info
      Surface(TRUE, TRUE, TRUE, TRUE, "redelk_enrich", FALSE, TRUE),  \* no Module
      Surface(TRUE, TRUE, TRUE, FALSE, "redelk_alarm", TRUE, TRUE),   \* info without .get
      Surface(TRUE, TRUE, TRUE, TRUE, "None", TRUE, TRUE),            \* info without 'type'
      Surface(TRUE, TRUE, TRUE, TRUE, "other", TRUE, TRUE) }          \* unknown type

-----------------------------------------------------------------------------
(* Dictionaries: Python dicts keep insertion order; a dictionary is the      *)
(* sequence of its descriptors, keyed by name.                               *)

Keys(D) == { D[k].name : k \in 1..Len(D) }

Lookup(D, name) == CHOOSE d \in { D[k] : k \in 1..Len(D) } : d.name = name

\* D[module] = {}; D[module]['info'] = m.info; D[module]['m'] = m;
\* D[module]['status'] = 'pending'
NewDescriptor(module, s) ==
    [name |-> module,
     info |-> [type |-> s.type, submodule |-> SubmoduleOf(module)],
     hasRole |-> s.hasRole,
     status |-> "pending",
     result |-> <<>>]

\* D[module] = descriptor: replaces the entry of an existing key, appends a new key
DictSet(D, d) ==
    IF d.name \in Keys(D)
    THEN [k \in 1..Len(D) |-> IF D[k].name = d.name THEN d ELSE D[k]]
    ELSE Append(D, d)

\* a call to a plugin or helper: what was called, in which stage, for which
\* module, with which string and integer argument, and whether it raised
Event(op, stage, m, s, n, x) ==
    [op |-> op, stage |-> stage, m |-> m, s |-> s, n |-> n, x |-> x]

\* an uncaught exception leaves the function and ends the process
Uncaught(raised, fn) == IF raised THEN fn ELSE exc

-----------------------------------------------------------------------------
(* load_modules *)

\* (mutant) the exception is not caught
load_except_propagates(dicts) == [dicts EXCEPT !.raised = TRUE]

\* the except clause of load_modules: the error is logged and swallowed
load_except(dicts) == [dicts EXCEPT !.raised = FALSE]

\* (mutant) a module of any of the three types is entered in all three dictionaries
classify_everywhere(dicts, module, s) ==
    IF s.type \in RoleTypes
    THEN [dicts EXCEPT !.aD = DictSet(dicts.aD, NewDescriptor(module, s)),
                       !.cD = DictSet(dicts.cD, NewDescriptor(module, s)),
                       !.eD = DictSet(dicts.eD, NewDescriptor(module, s))]
    ELSE dicts

\* the if/elif chain on module_type
classify(dicts, module, s) ==
    CASE s.type = "redelk_alarm" ->
            [dicts EXCEPT !.aD = DictSet(dicts.aD, NewDescriptor(module, s))]
      [] s.type = "redelk_connector" ->
            [dicts EXCEPT !.cD = DictSet(dicts.cD, NewDescriptor(module, s))]
      [] s.type = "redelk_enrich" ->
            [dicts EXCEPT !.eD = DictSet(dicts.eD, NewDescriptor(module, s))]
      [] OTHER -> dicts

\* (mutant) only the info attribute is required
has_info_only(s) == s.hasInfo

\* hasattr(m, 'info') and hasattr(m, 'Module')
has_surface(s) == s.hasInfo /\ s.hasModule

\* the body of the try block for one candidate whose import succeeded
load_candidate(dicts, module, s) ==
    IF has_surface(s)
    THEN IF s.infoIsMap
         THEN classify(dicts, module, s)
         ELSE load_except([dicts EXCEPT !.raised = TRUE])   \* m.info.get raises
    ELSE dicts

\* os.path.isdir(os.path.join(path, module)) and module != '__pycache__'
is_candidate(module, s) == s.isdir /\ module # PyCache

\* (mutant) the alarms run before the enrichments
main_after_swapped(fn) ==
    CASE fn = "load" -> "alarm"
      [] fn = "alarm" -> "enrich"
      [] fn = "enrich" -> "dispatch"
      [] fn = "dispatch" -> "done"

\* (mutant) the pipeline starts over when process_alarms returns
main_after_again(fn) ==
    CASE fn = "load" -> "enrich"
      [] fn = "enrich" -> "alarm"
      [] fn = "alarm" -> "dispatch"
      [] fn = "dispatch" -> "enrich"

\* the statements of __main__: what runs after each function returns
main_after(fn) ==
    CASE fn = "load" -> "enrich"
      [] fn = "enrich" -> "alarm"
      [] fn = "alarm" -> "dispatch"
      [] fn = "dispatch" -> "done"

\* one iteration of "for module in module_folders"
load_modules ==
    /\ pc = "load"
    /\ idx <= Len(module_folders)
    /\ LET module == module_folders[idx]
           s == disk[module]
           before == [aD |-> aD, cD |-> cD, eD |-> eD, raised |-> FALSE]
           after ==
               IF is_candidate(module, s)
               THEN IF s.imports
                    THEN load_candidate(before, module, s)
                    ELSE load_except([before EXCEPT !.raised = TRUE])
               ELSE before
       IN  /\ aD' = after.aD
           /\ cD' = after.cD
           /\ eD' = after.eD
           /\ log' = IF is_candidate(module, s)
                     THEN Append(log, Event("import", "load", module, "", 0,
                                            IF s.imports THEN "ok" ELSE "raise"))
                     ELSE log
           /\ IF after.raised
              THEN pc' = "crashed" /\ idx' = idx
              ELSE pc' = pc /\ idx' = idx + 1
           /\ exc' = Uncaught(after.raised, "load")
    /\ UNCHANGED <<conn, module_folders, disk, alarms, notifications, r, sent>>

\* return(aD, cD, eD), and the statement of __main__ that follows the call
load_modules_return ==
    /\ pc = "load"
    /\ idx > Len(module_folders)
    /\ pc' = main_after("load")
    /\ idx' = 1
    /\ UNCHANGED <<conn, module_folders, disk, alarms, notifications, aD, cD, eD, r, exc,
                   log, sent>>

-----------------------------------------------------------------------------
(* ResultSets, hits and the helpers of modules.helpers *)

HostOf(id) == IF id = 1 THEN "host1" ELSE "host2"

\* a hit as a module's query returns it: an id, a field to group by, no tags,
\* no alarm data
Hit(id) == [id |-> id, host |-> HostOf(id), tags |-> {}, alarm |-> {}]

Note == {<<"note", "x">>}

\* a ResultSet with n hits; hits.total is the number of hits at production time
MkResult(n, mutations, groupby) ==
    [hits |-> [total |-> n, hits |-> [k \in 1..n |-> Hit(k)]],
     mutations |-> mutations,
     groupby |-> groupby]

MutationMaps == { <<>>, (1 :> Note) }

GroupBys == { <<>>, <<"host">> }

AlarmResults ==
    { MkResult(0, <<>>, <<"host">>) } \cup
    { MkResult(n, m, g) : n \in 1..MaxHits, m \in MutationMaps, g \in GroupBys }

EnrichResults == { MkResult(n, <<>>, <<>>) : n \in 0..MaxHits }

\* setTags(tag, [hit]): the tag is added to the hit, in place
setTags(tag, hit) == [hit EXCEPT !.tags = @ \cup {tag}]

\* addAlarmData(hit, mutation, alarm_name): the mutation is merged into the hit
\* under the alarm's name, in place, and the hit is returned
addAlarmData(hit, m, alarm_name) == [hit EXCEPT !.alarm = @ \cup {<<alarm_name, m>>}]

\* the value of the grouping fields of a hit
GroupKey(hit, gb) == [k \in 1..Len(gb) |-> IF gb[k] = "host" THEN hit.host ELSE "None"]

\* groupHits(hits, gb): one group record per distinct key, in order of first
\* occurrence, holding the hits of that key in order
RECURSIVE groupHits(_, _)
groupHits(hits, gb) ==
    IF hits = <<>> THEN <<>>
    ELSE LET key == GroupKey(hits[1], gb)
             same == SelectSeq(hits, LAMBDA h : GroupKey(h, gb) = key)
             rest == SelectSeq(hits, LAMBDA h : GroupKey(h, gb) # key)
         IN  <<[key |-> key, hits |-> same]>> \o groupHits(rest, gb)

-----------------------------------------------------------------------------
(* What the environment does during one iteration of a run stage *)

Behaviour(should, ctor, run, result, tagRaise, report, errReport) ==
    [should |-> should, ctor |-> ctor, run |-> run, result |-> result,
     tagRaise |-> tagRaise, report |-> report, errReport |-> errReport]

Outcomes == {"ok", "raise"}

\* results: what run() may return; tagging: whether the stage tags the hits
RunBehaviours(results, tagging) ==
    LET any == CHOOSE x \in results : TRUE
    IN  { Behaviour(s, "ok", "return", any, 0, "ok", "ok") : s \in {"false", "raise"} }
        \cup { Behaviour("true", "raise", "return", any, 0, "ok", e) : e \in Outcomes }
        \cup { Behaviour("true", "ok", "raise", any, 0, "ok", e) : e \in Outcomes }
        \cup { Behaviour("true", "ok", "return", x, 0, "ok", "ok") : x \in results }
        \cup { Behaviour("true", "ok", "return", x, 0, "raise", e) :
                 x \in results, e \in Outcomes }
        \cup { b \in { Behaviour("true", "ok", "return", x, k, "ok", e) :
                         x \in results, k \in 1..MaxHits, e \in Outcomes } :
                 tagging /\ b.tagRaise <= Len(b.result.hits.hits) }

-----------------------------------------------------------------------------
(* run_enrichments *)

\* the result of one iteration: the descriptor, the calls made, and whether an
\* exception leaves the function
Step(d, events, raised) == [d |-> d, events |-> events, raised |-> raised]

\* the hits of a stored result with setTags applied to the first k of them
TagFirst(result, tag, k) ==
    [result EXCEPT !.hits.hits =
        [h \in 1..Len(@) |-> IF h <= k THEN setTags(tag, @[h]) ELSE @[h]]]

\* the calls setTags(tag, [hit]) for the first k hits, the last of which raises
\* if failing
TagEvents(stage, name, tag, result, k, failing) ==
    [h \in 1..k |-> Event("setTags", stage, name, tag, result.hits.hits[h].id,
                          IF failing /\ h = k THEN "raise" ELSE "ok")]

\* (mutant) the report is made without the number of hits
enrich_count_default(result) == 0

\* hits = len(eD[e]['result']['hits']['hits'])
enrich_count(result) == Len(result.hits.hits)

\* (mutant) the exception is not caught
enrich_except_propagates(d, events, b) == Step(d, events, TRUE)

\* (mutant) the error is not reported
enrich_except_silent(d, events, b) == Step([d EXCEPT !.status = "error"], events, FALSE)

\* the except clause of run_enrichments: moduleDidRun(e, 'enrich', 'error', msg),
\* then eD[e]['status'] = 'error'
enrich_except(d, events, b) ==
    LET ev == Append(events, Event("moduleDidRun", "enrich", d.name, "error", 0,
                                   b.errReport))
    IN  IF b.errReport = "raise"
        THEN Step(d, ev, TRUE)
        ELSE Step([d EXCEPT !.status = "error"], ev, FALSE)

\* the statements of the try block after run() has returned
enrich_store(d, events, b) ==
    LET stored == [d EXCEPT !.result = <<b.result>>]
        n == Len(b.result.hits.hits)
        tag == d.info.submodule
    IN  IF b.tagRaise > 0
        THEN \* setTags raises on hit number tagRaise: the hits before it are tagged
             enrich_except(
                 [stored EXCEPT !.result[1] = TagFirst(@, tag, b.tagRaise - 1)],
                 events \o TagEvents("enrich", d.name, tag, b.result, b.tagRaise, TRUE),
                 b)
        ELSE LET tagged == [stored EXCEPT !.result[1] = TagFirst(@, tag, n)]
                 ev == (events \o TagEvents("enrich", d.name, tag, b.result, n, FALSE))
                       \o <<Event("moduleDidRun", "enrich", d.name, "success",
                                  enrich_count(tagged.result[1]), b.report)>>
             IN  IF b.report = "raise"
                 THEN enrich_except(tagged, ev, b)
                 ELSE Step([tagged EXCEPT !.status = "success"], ev, FALSE)

\* the try block of run_enrichments
enrich_try(d, events, b) ==
    LET ev1 == Append(events, Event("Module", "enrich", d.name, "", 0, b.ctor))
        ev2 == Append(ev1, Event("run", "enrich", d.name, "", 0,
                                 IF b.run = "raise" THEN "raise" ELSE "ok"))
    IN  IF b.ctor = "raise" THEN enrich_except(d, ev1, b)
        ELSE IF b.run = "raise" THEN enrich_except(d, ev2, b)
        ELSE enrich_store(d, ev2, b)

\* the body of "for e in eD"
enrich_one(d, b) ==
    LET ev == <<Event("shouldModuleRun", "enrich", d.name, b.should, 0,
                      IF b.should = "raise" THEN "raise" ELSE "ok")>>
    IN  CASE b.should = "raise" -> Step(d, ev, TRUE)
          [] b.should = "false" -> Step(d, ev, FALSE)
          [] OTHER -> enrich_try(d, ev, b)

\* a module whose Module class has no run() raises AttributeError at the call
CanBehave(d, b) ==
    (b.should = "true" /\ b.ctor = "ok" /\ b.run = "return") => d.hasRole

\* one iteration of "for e in eD"
run_enrichments ==
    /\ pc = "enrich"
    /\ idx <= Len(eD)
    /\ \E b \in RunBehaviours(EnrichResults, TRUE) :
         /\ CanBehave(eD[idx], b)
         /\ LET step == enrich_one(eD[idx], b)
            IN  /\ eD' = [eD EXCEPT ![idx] = step.d]
                /\ log' = log \o step.events
                /\ IF step.raised
                   THEN pc' = "crashed" /\ idx' = idx
                   ELSE pc' = pc /\ idx' = idx + 1
                /\ exc' = Uncaught(step.raised, "enrich")
    /\ UNCHANGED <<conn, module_folders, disk, alarms, notifications, aD, cD, r, sent>>

\* return(eD), and the statement of __main__ that follows the call
run_enrichments_return ==
    /\ pc = "enrich"
    /\ idx > Len(eD)
    /\ pc' = main_after("enrich")
    /\ idx' = 1
    /\ UNCHANGED <<conn, module_folders, disk, alarms, notifications, aD, cD, eD, r, exc,
                   log, sent>>

-----------------------------------------------------------------------------
(* run_alarms *)

\* (mutant) the report is made without the number of hits
alarm_count_default(result) == 0

\* hits = len(aD[a]['result']['hits']['hits'])
alarm_count(result) == Len(result.hits.hits)

\* the except clause of run_alarms: moduleDidRun(a, 'alarm', 'error', msg),
\* then aD[a]['status'] = 'error'
alarm_except(d, events, b) ==
    LET ev == Append(events, Event("moduleDidRun", "alarm", d.name, "error", 0,
                                   b.errReport))
    IN  IF b.errReport = "raise"
        THEN Step(d, ev, TRUE)
        ELSE Step([d EXCEPT !.status = "error"], ev, FALSE)

\* (mutant) what run() returned is reported but not stored
alarm_store_unsaved(d, events, b) ==
    LET ev == Append(events, Event("moduleDidRun", "alarm", d.name, "success",
                                   alarm_count(b.result), b.report))
    IN  IF b.report = "raise"
        THEN alarm_except(d, ev, b)
        ELSE Step([d EXCEPT !.status = "success"], ev, FALSE)

\* the statements of the try block after run() has returned
alarm_store(d, events, b) ==
    LET stored == [d EXCEPT !.result = <<b.result>>]
        ev == Append(events, Event("moduleDidRun", "alarm", d.name, "success",
                                   alarm_count(stored.result[1]), b.report))
    IN  IF b.report = "raise"
        THEN alarm_except(stored, ev, b)
        ELSE Step([stored EXCEPT !.status = "success"], ev, FALSE)

\* (mutant) a module whose run() raised is instantiated and run a second time
alarm_try_again(d, events, b) ==
    LET ev1 == Append(events, Event("Module", "alarm", d.name, "", 0, b.ctor))
        ev2 == Append(ev1, Event("run", "alarm", d.name, "", 0,
                                 IF b.run = "raise" THEN "raise" ELSE "ok"))
        ev3 == ev2 \o <<Event("Module", "alarm", d.name, "", 0, "ok"),
                        Event("run", "alarm", d.name, "", 0, "raise")>>
    IN  IF b.ctor = "raise" THEN alarm_except(d, ev1, b)
        ELSE IF b.run = "raise" THEN alarm_except(d, ev3, b)
        ELSE alarm_store(d, ev2, b)

\* the try block of run_alarms
alarm_try(d, events, b) ==
    LET ev1 == Append(events, Event("Module", "alarm", d.name, "", 0, b.ctor))
        ev2 == Append(ev1, Event("run", "alarm", d.name, "", 0,
                                 IF b.run = "raise" THEN "raise" ELSE "ok"))
    IN  IF b.ctor = "raise" THEN alarm_except(d, ev1, b)
        ELSE IF b.run = "raise" THEN alarm_except(d, ev2, b)
        ELSE alarm_store(d, ev2, b)

\* the body of "for a in aD"
alarm_one(d, b) ==
    LET ev == <<Event("shouldModuleRun", "alarm", d.name, b.should, 0,
                      IF b.should = "raise" THEN "raise" ELSE "ok")>>
    IN  CASE b.should = "raise" -> Step(d, ev, TRUE)
          [] b.should = "false" -> Step(d, ev, FALSE)
          [] OTHER -> alarm_try(d, ev, b)

\* one iteration of "for a in aD"
run_alarms ==
    /\ pc = "alarm"
    /\ idx <= Len(aD)
    /\ \E b \in RunBehaviours(AlarmResults, FALSE) :
         /\ CanBehave(aD[idx], b)
         /\ LET step == alarm_one(aD[idx], b)
            IN  /\ aD' = [aD EXCEPT ![idx] = step.d]
                /\ log' = log \o step.events
                /\ IF step.raised
                   THEN pc' = "crashed" /\ idx' = idx
                   ELSE pc' = pc /\ idx' = idx + 1
                /\ exc' = Uncaught(step.raised, "alarm")
    /\ UNCHANGED <<conn, module_folders, disk, alarms, notifications, cD, eD, r, sent>>

\* return(aD), and the statement of __main__ that follows the call
run_alarms_return ==
    /\ pc = "alarm"
    /\ idx > Len(aD)
    /\ pc' = main_after("alarm")
    /\ idx' = 1
    /\ UNCHANGED <<conn, module_folders, disk, alarms, notifications, aD, cD, eD, r, exc,
                   log, sent>>

-----------------------------------------------------------------------------
(* process_alarms *)

\* (mutant) a name absent from the config counts as enabled
enabled_unless_disabled(config, name) ==
    name \notin DOMAIN config \/ config[name].enabled

\* (mutant) the enabled flag is not read
listed_in(config, name) == name \in DOMAIN config

\* a in alarms and alarms[a]['enabled'] / c in notifications and notifications[c]['enabled']
enabled_in(config, name) == name \in DOMAIN config /\ config[name].enabled

\* (mutant) a hit without a mutation is given one that is not empty
mutation_or_note(result, hit) ==
    IF hit.id \in DOMAIN result.mutations THEN result.mutations[hit.id] ELSE Note

\* (mutant) the mutations of the ResultSet are not read
mutation_dropped(result, hit) == {}

\* if rHit['_id'] in r['mutations']: m = r['mutations'][rHit['_id']] else: m = {}
mutation_of(result, hit) ==
    IF hit.id \in DOMAIN result.mutations THEN result.mutations[hit.id] ELSE {}

\* the loop over r['hits']['hits'] calling addAlarmData, for the first k hits
MutateFirst(result, alarm_name, k) ==
    [result EXCEPT !.hits.hits =
        [h \in 1..Len(@) |->
            IF h <= k
            THEN addAlarmData(@[h], mutation_of(result, @[h]), alarm_name)
            ELSE @[h]]]

\* the calls to addAlarmData for the first k hits, the last of which raises if
\* failing
MutateEvents(name, result, k, failing) ==
    [h \in 1..k |->
        Event("addAlarmData", "dispatch", name,
              IF result.hits.hits[h].id \in DOMAIN result.mutations
              THEN "mutation" ELSE "default",
              result.hits.hits[h].id,
              IF failing /\ h = k THEN "raise" ELSE "ok")]

\* (mutant) the hits of the stored result are not tagged
tag_skipped(result, alarm_name) == result

\* setTags(alarm_name, r['hits']['hits'])
tag_all(result, alarm_name) == TagFirst(result, alarm_name, Len(result.hits.hits))

\* (mutant) r = aD[a]['result']: r is the stored object
copy_reference(obj) == [shared |-> TRUE, val |-> obj]

\* r = copy.deepcopy(aD[a]['result']): a new object, equal to the stored one,
\* that shares nothing with it
copy_deepcopy(obj) == [shared |-> FALSE, val |-> obj]

\* (mutant) the gate lets an empty ResultSet through
should_dispatch_always(result) == result.hits.total >= 0

\* r['hits']['total'] > 0
should_dispatch(result) == result.hits.total > 0

\* where a helper of the dispatch stage raises, if one does
DispatchFailures(result) ==
    {[at |-> "none", k |-> 0], [at |-> "setTags", k |-> 0]}
    \cup {[at |-> "addAlarmData", k |-> k] : k \in 1..Len(result.hits.hits)}
    \cup (IF should_dispatch(result) THEN {[at |-> "groupHits", k |-> 0]} ELSE {})

Processed(d, events, copy, loop, raised) ==
    [d |-> d, events |-> events, r |-> copy, loop |-> loop, raised |-> raised]

\* the body of "for a in aD" for an enabled alarm that ran successfully, up to
\* the connector loop
process_hits(d, f) ==
    LET name == d.name
        alarm_name == d.info.submodule
        stored == d.result[1]
        n == Len(stored.hits.hits)
        mutated == MutateFirst(stored, alarm_name, n)
        ev1 == MutateEvents(name, stored, n, FALSE)
        tagged == tag_all(mutated, alarm_name)
        ev2 == Append(ev1, Event("setTags", "dispatch", name, alarm_name, n,
                                 IF f.at = "setTags" THEN "raise" ELSE "ok"))
        copy == copy_deepcopy(tagged)
        ev3 == Append(ev2, Event("deepcopy", "dispatch", name, "", 0, "ok"))
        grouped == [copy.val EXCEPT !.hits.hits = groupHits(@, copy.val.groupby)]
        ev4 == Append(ev3, Event("groupHits", "dispatch", name, "", 0,
                                 IF f.at = "groupHits" THEN "raise" ELSE "ok"))
        \* an assignment to r['hits']['hits'] reaches the stored result only if
        \* r shares it
        kept == IF copy.shared THEN grouped ELSE tagged
    IN  CASE f.at = "addAlarmData" ->
                Processed([d EXCEPT !.result[1] = MutateFirst(stored, alarm_name, f.k - 1)],
                          MutateEvents(name, stored, f.k, TRUE), <<>>, FALSE, TRUE)
          [] f.at = "setTags" ->
                Processed([d EXCEPT !.result[1] = mutated], ev2, <<>>, FALSE, TRUE)
          [] f.at = "groupHits" ->
                Processed([d EXCEPT !.result[1] = tagged], ev4, <<copy.val>>, FALSE, TRUE)
          [] OTHER ->
                IF should_dispatch(copy.val)
                THEN Processed([d EXCEPT !.result[1] = kept], ev4, <<grouped>>, TRUE, FALSE)
                ELSE Processed([d EXCEPT !.result[1] = tagged], ev3, <<copy.val>>,
                               FALSE, FALSE)

\* (mutant) the gate tests for a stored result instead of the status
ran_with_result(d) == d.result # <<>>

\* if aD[a]['status'] != 'success': skip
ran_correctly(d) == d.status = "success"

\* the body of "for a in aD" up to the connector loop
process_one(d, f) ==
    IF enabled_in(alarms, d.name)
    THEN IF ran_correctly(d)
         THEN process_hits(d, f)
         ELSE Processed(d, <<>>, r, FALSE, FALSE)
    ELSE Processed(d, <<>>, r, FALSE, FALSE)

WillProcess(d) == enabled_in(alarms, d.name) /\ ran_correctly(d)

\* one iteration of "for a in aD", up to the connector loop
process_alarms ==
    /\ pc = "dispatch"
    /\ idx <= Len(aD)
    /\ \E f \in (IF WillProcess(aD[idx]) /\ aD[idx].result # <<>>
                 THEN DispatchFailures(aD[idx].result[1])
                 ELSE {[at |-> "none", k |-> 0]}) :
         LET p == process_one(aD[idx], f)
         IN  /\ aD' = [aD EXCEPT ![idx] = p.d]
             /\ log' = log \o p.events
             /\ r' = p.r
             /\ conn' = IF p.loop THEN 1 ELSE conn
             /\ pc' = IF p.raised THEN "crashed" ELSE IF p.loop THEN "send" ELSE pc
             /\ exc' = Uncaught(p.raised, "dispatch")
             /\ idx' = IF p.raised \/ p.loop THEN idx ELSE idx + 1
    /\ UNCHANGED <<module_folders, disk, alarms, notifications, cD, eD, sent>>

\* (mutant) the exception of a connector is caught and the loop goes on
connector_caught(ctor, send) == FALSE

\* no try block encloses the connector loop: an exception raised by Module() or
\* by send_alarm leaves process_alarms
connector_raised(ctor, send) == ctor = "raise" \/ send = "raise"

\* one iteration of "for c in cD"
send_alarm ==
    /\ pc = "send"
    /\ conn <= Len(cD)
    /\ LET c == cD[conn].name
           a == aD[idx].name
       IN  IF enabled_in(notifications, c)
           THEN \E ctor \in Outcomes, send \in Outcomes :
                  /\ (send = "ok") => cD[conn].hasRole
                  /\ (ctor = "raise") => (send = "raise")
                  /\ log' = IF ctor = "raise"
                            THEN Append(log, Event("Module", "dispatch", a, c, 0, ctor))
                            ELSE log \o <<Event("Module", "dispatch", a, c, 0, ctor),
                                          Event("send_alarm", "dispatch", a, c,
                                                r[1].hits.total, send)>>
                  /\ sent' = IF ctor = "raise"
                             THEN sent
                             ELSE Append(sent, [connector |-> c, alarm |-> a, r |-> r[1]])
                  /\ IF connector_raised(ctor, send)
                     THEN pc' = "crashed" /\ conn' = conn
                     ELSE pc' = pc /\ conn' = conn + 1
                  /\ exc' = Uncaught(connector_raised(ctor, send), "dispatch")
           ELSE /\ conn' = conn + 1
                /\ UNCHANGED <<pc, exc, log, sent>>
    /\ UNCHANGED <<idx, module_folders, disk, alarms, notifications, aD, cD, eD, r>>

\* the connector loop is exhausted: the next alarm
send_alarm_done ==
    /\ pc = "send"
    /\ conn > Len(cD)
    /\ pc' = "dispatch"
    /\ idx' = idx + 1
    /\ UNCHANGED <<conn, module_folders, disk, alarms, notifications, aD, cD, eD, r, exc,
                   log, sent>>

\* process_alarms returns and __main__ ends
process_alarms_return ==
    /\ pc = "dispatch"
    /\ idx > Len(aD)
    /\ pc' = main_after("dispatch")
    /\ UNCHANGED <<idx, conn, module_folders, disk, alarms, notifications, aD, cD, eD, r,
                   exc, log, sent>>

-----------------------------------------------------------------------------
(* Discovery specification: any directory content, load_modules only *)

\* the listing m1..mN with the entry at position p (if any) being __pycache__
Listing(N, p) == [k \in 1..N |-> IF k = p THEN PyCache ELSE NamePool[k]]

ListedNames(N) == { NamePool[k] : k \in 1..N } \cup {PyCache}

\* the __pycache__ directory holds no module.py
PyCacheSurface == Surface(TRUE, FALSE, FALSE, FALSE, "None", FALSE, FALSE)

InitLoad ==
    /\ pc = "load"
    /\ idx = 1
    /\ conn = 1
    /\ \E p \in 0..NumCand : module_folders = Listing(NumCand, p)
    /\ disk \in { f \in [ListedNames(NumCand) -> Surfaces \cup {PyCacheSurface}] :
                    \A n \in ListedNames(NumCand) :
                        (f[n] = PyCacheSurface) <=> (n = PyCache) }
    /\ alarms = <<>>
    /\ notifications = <<>>
    /\ aD = <<>> /\ cD = <<>> /\ eD = <<>>
    /\ r = <<>>
    /\ exc = "none"
    /\ log = <<>>
    /\ sent = <<>>

NextLoad == load_modules \/ load_modules_return

SpecLoad == InitLoad /\ [][NextLoad]_vars

-----------------------------------------------------------------------------
(* Pipeline specification: complete plugins, the whole of __main__ *)

Configs(names) ==
    UNION { [S -> {[enabled |-> TRUE], [enabled |-> FALSE]}] : S \in SUBSET names }

NamesOfType(t) ==
    { module_folders[k] : k \in { j \in 1..Len(module_folders) :
                                     disk[module_folders[j]].type = t } }

\* the three dictionaries are filled and read independently of each other, so
\* the listing is taken with the enrichments first and the connectors last
RoleRank(t) ==
    CASE t = "redelk_enrich" -> 1 [] t = "redelk_alarm" -> 2 [] t = "redelk_connector" -> 3

Init ==
    /\ pc = "load"
    /\ idx = 1
    /\ conn = 1
    /\ module_folders = Listing(NumMods, 0)
    /\ disk \in [{ NamePool[k] : k \in 1..NumMods } -> { Plugin(t) : t \in RoleTypes }]
    /\ \A t \in RoleTypes : Cardinality(NamesOfType(t)) <= MaxPerRole
    /\ \A j, k \in 1..NumMods :
         j < k => RoleRank(disk[NamePool[j]].type) <= RoleRank(disk[NamePool[k]].type)
    /\ alarms \in Configs(NamesOfType("redelk_alarm"))
    /\ notifications \in Configs(NamesOfType("redelk_connector"))
    /\ aD = <<>> /\ cD = <<>> /\ eD = <<>>
    /\ r = <<>>
    /\ exc = "none"
    /\ log = <<>>
    /\ sent = <<>>

Next ==
    \/ load_modules
    \/ load_modules_return
    \/ run_enrichments
    \/ run_enrichments_return
    \/ run_alarms
    \/ run_alarms_return
    \/ process_alarms
    \/ send_alarm
    \/ send_alarm_done
    \/ process_alarms_return

Spec == Init /\ [][Next]_vars

-----------------------------------------------------------------------------
(* Pipeline specification with blocking calls: a call into a module may never *)
(* return; the single thread takes its next step whenever it has one          *)

\* moduleClass.run() of the module of the current iteration never returns
run_hangs ==
    /\ pc \in {"enrich", "alarm"}
    /\ idx <= Len(IF pc = "enrich" THEN eD ELSE aD)
    /\ LET d == IF pc = "enrich" THEN eD[idx] ELSE aD[idx]
       IN  /\ d.hasRole
           /\ log' = log \o <<Event("shouldModuleRun", pc, d.name, "true", 0, "ok"),
                               Event("Module", pc, d.name, "", 0, "ok"),
                               Event("run", pc, d.name, "", 0, "hang")>>
    /\ pc' = "hung"
    /\ UNCHANGED <<idx, conn, module_folders, disk, alarms, notifications, aD, cD, eD, r,
                   exc, sent>>

\* connector.send_alarm(r) of the connector of the current iteration never returns
send_alarm_hangs ==
    /\ pc = "send"
    /\ conn <= Len(cD)
    /\ enabled_in(notifications, cD[conn].name)
    /\ cD[conn].hasRole
    /\ log' = log \o <<Event("Module", "dispatch", aD[idx].name, cD[conn].name, 0, "ok"),
                        Event("send_alarm", "dispatch", aD[idx].name, cD[conn].name,
                              r[1].hits.total, "hang")>>
    /\ sent' = Append(sent, [connector |-> cD[conn].name, alarm |-> aD[idx].name,
                             r |-> r[1]])
    /\ pc' = "hung"
    /\ UNCHANGED <<idx, conn, module_folders, disk, alarms, notifications, aD, cD, eD, r,
                   exc>>

NextLive == Next \/ run_hangs \/ send_alarm_hangs

SpecLive == Init /\ [][NextLive]_vars /\ WF_vars(NextLive)

-----------------------------------------------------------------------------
(* Reading the history *)

\* the positions of the calls op made in a stage for a module
Calls(op, stage, m) ==
    { k \in 1..Len(log) : log[k].op = op /\ log[k].stage = stage /\ log[k].m = m }

Raising(op, stage, m) == { k \in Calls(op, stage, m) : log[k].x = "raise" }

\* the function being executed, or the one the uncaught exception left
Current == IF pc = "crashed" THEN exc ELSE IF pc = "send" THEN "dispatch" ELSE pc

Rank(fn) ==
    CASE fn = "load" -> 1 [] fn = "enrich" -> 2 [] fn = "alarm" -> 3
      [] fn = "dispatch" -> 4 [] fn = "done" -> 5

\* the function has returned
Returned(fn) == Rank(Current) > Rank(fn)

Ended == pc \in {"done", "crashed"}

DictOf(stage) == IF stage = "enrich" THEN eD ELSE aD

\* Module() or run() of the module raised
ModuleRaised(stage, m) == Raising("Module", stage, m) \cup Raising("run", stage, m) # {}

\* shouldModuleRun returned true for the module
Eligible(stage, m) == \E k \in Calls("shouldModuleRun", stage, m) : log[k].s = "true"

\* no call to shouldModuleRun or moduleDidRun raised in the stage
HelpersReturned(stage) ==
    \A k \in 1..Len(log) :
        (log[k].stage = stage /\ log[k].op \in {"shouldModuleRun", "moduleDidRun"})
            => log[k].x = "ok"

\* what process_alarms did for an alarm
DispatchCalls(m) == { k \in 1..Len(log) : log[k].stage = "dispatch" /\ log[k].m = m }

SentFor(m) == { k \in 1..Len(sent) : sent[k].alarm = m }

\* the stored result is as run() returned it: flat, untagged, no alarm data
Untouched(d) == d.result = <<>> \/ d.result[1] \in AlarmResults

-----------------------------------------------------------------------------
(* C1: failure isolation in the run stages *)

-----------------------------------------------------------------------------
(* C2: an alarm that did not run successfully is never processed *)

\* C2: in every state, an alarm whose status is not Success has no call of the
\* dispatch stage made for it (addAlarmData, setTags, deepcopy, groupHits,
\* Module(), send_alarm), was handed to no connector, and its stored result, if
\* any, is as run() returned it.
C2_FailedAlarmNeverProcessed ==
    \A k \in 1..Len(aD) :
        aD[k].status # "success" =>
            /\ DispatchCalls(aD[k].name) = {}
            /\ SentFor(aD[k].name) = {}
            /\ Untouched(aD[k])

\* process_alarms has returned; it visited an enabled alarm with status Error
\* that holds a result with hits, and an enabled alarm still Pending, while a
\* connector was enabled
C2_Witness ==
    /\ pc = "done"
    /\ Len(aD) = 2 /\ Len(cD) = 1
    /\ enabled_in(notifications, cD[1].name)
    /\ \A k \in 1..2 : enabled_in(alarms, aD[k].name)
    /\ aD[1].status = "error" /\ aD[1].result # <<>>
    /\ aD[1].result[1].hits.total > 0
    /\ aD[2].status = "pending"

-----------------------------------------------------------------------------
(* C3: dispatch is gated on hits.total *)

\* C3: in every state, for an alarm whose stored result has hits.total = 0 no
\* connector was instantiated, send_alarm was never invoked, and no connector
\* received its ResultSet.
C3_NoHitsNoConnector ==
    \A k \in 1..Len(aD) :
        (aD[k].result # <<>> /\ aD[k].result[1].hits.total = 0) =>
            /\ Calls("Module", "dispatch", aD[k].name) = {}
            /\ Calls("send_alarm", "dispatch", aD[k].name) = {}
            /\ SentFor(aD[k].name) = {}

\* process_alarms has returned; an enabled alarm that ran successfully with no
\* hits was processed as far as the copy, with a connector enabled
C3_Witness ==
    /\ pc = "done"
    /\ \E k \in 1..Len(aD) :
         /\ enabled_in(alarms, aD[k].name)
         /\ aD[k].status = "success"
         /\ aD[k].result[1].hits.total = 0
         /\ Calls("deepcopy", "dispatch", aD[k].name) # {}
    /\ \E c \in 1..Len(cD) : enabled_in(notifications, cD[c].name)

-----------------------------------------------------------------------------
(* C4: an alarm that is not enabled is skipped entirely *)

\* C4: in every state, an alarm whose name is absent from config.alarms, or
\* present with enabled = false, has no call of the dispatch stage made for
\* it, was handed to no connector, and its stored result, if any, is as run()
\* returned it, whatever its status.
C4_DisabledAlarmSkipped ==
    \A k \in 1..Len(aD) :
        ~(aD[k].name \in DOMAIN alarms /\ alarms[aD[k].name].enabled) =>
            /\ DispatchCalls(aD[k].name) = {}
            /\ SentFor(aD[k].name) = {}
            /\ Untouched(aD[k])

\* process_alarms has returned; it visited an alarm absent from the config and
\* an alarm with enabled = false, both run successfully with hits, while a
\* connector was enabled
C4_Witness ==
    /\ pc = "done"
    /\ Len(aD) = 2 /\ Len(cD) = 1
    /\ enabled_in(notifications, cD[1].name)
    /\ aD[1].name \notin DOMAIN alarms
    /\ aD[2].name \in DOMAIN alarms /\ ~alarms[aD[2].name].enabled
    /\ \A k \in 1..2 : aD[k].status = "success" /\ aD[k].result[1].hits.total > 0

-----------------------------------------------------------------------------
(* C5: the stages run one after the other *)

StageRank(stage) == Rank(stage)

\* every candidate directory was imported
DiscoveryComplete ==
    \A k \in 1..Len(module_folders) :
        is_candidate(module_folders[k], disk[module_folders[k]])
            => Calls("import", "load", module_folders[k]) # {}

\* every module of the run stage was visited
StageComplete(stage) ==
    \A k \in 1..Len(DictOf(stage)) :
        Calls("shouldModuleRun", stage, DictOf(stage)[k].name) # {}

\* C5: in every state, the calls made so far are ordered by stage (discovery,
\* enrichment, alarm, dispatch); once a run stage has made a call discovery is
\* complete, once the alarm stage has made a call every enrichment was visited,
\* and once the dispatch stage has made a call every alarm was visited.
C5_StageOrdering ==
    /\ \A j, k \in 1..Len(log) :
           j < k => StageRank(log[j].stage) <= StageRank(log[k].stage)
    /\ (\E k \in 1..Len(log) : log[k].stage # "load") => DiscoveryComplete
    /\ (\E k \in 1..Len(log) : log[k].stage \in {"alarm", "dispatch"})
           => StageComplete("enrich")
    /\ (\E k \in 1..Len(log) : log[k].stage = "dispatch") => StageComplete("alarm")

\* an invocation that imported, tagged an enrichment's hit, ran an alarm and
\* sent it to a connector
C5_Witness ==
    /\ pc = "done"
    /\ \E k \in 1..Len(log) : log[k].op = "setTags" /\ log[k].stage = "enrich"
    /\ \E k \in 1..Len(log) : log[k].op = "run" /\ log[k].stage = "alarm"
    /\ \E k \in 1..Len(log) : log[k].op = "send_alarm"

-----------------------------------------------------------------------------
(* C6: grouping never reaches a stored result *)

HitFields == {"id", "host", "tags", "alarm"}

\* the hit list is the flat list of the hits run() returned
Flat(result) ==
    /\ Len(result.hits.hits) = result.hits.total
    /\ \A h \in 1..Len(result.hits.hits) :
           /\ DOMAIN result.hits.hits[h] = HitFields
           /\ result.hits.hits[h].id = h

\* C6: in every state, every stored alarm result holds the flat list of its
\* hits; an alarm that was grouped holds its hits tagged with its name; and
\* what a connector received is the grouped list, not the flat one.
C6_GroupingIsolation ==
    /\ \A k \in 1..Len(aD) :
           aD[k].result # <<>> =>
               /\ Flat(aD[k].result[1])
               /\ Calls("groupHits", "dispatch", aD[k].name) # {} =>
                      \A h \in 1..Len(aD[k].result[1].hits.hits) :
                          aD[k].info.submodule \in aD[k].result[1].hits.hits[h].tags
    /\ \A k \in 1..Len(sent) :
           \A g \in 1..Len(sent[k].r.hits.hits) :
               DOMAIN sent[k].r.hits.hits[g] = {"key", "hits"}

\* two alarms with two hits each and different groupby were both grouped and
\* sent to a connector
C6_Witness ==
    /\ pc = "done"
    /\ Len(aD) = 2
    /\ aD[1].result # <<>> /\ aD[2].result # <<>>
    /\ aD[1].result[1].groupby # aD[2].result[1].groupby
    /\ \A k \in 1..2 : aD[k].result[1].hits.total = 2 /\ SentFor(aD[k].name) # {}
    /\ \E j, k \in 1..Len(sent) : Len(sent[j].r.hits.hits) # Len(sent[k].r.hits.hits)

-----------------------------------------------------------------------------
(* C7: a candidate that fails to load is excluded and nothing else changes *)

AllKeys == Keys(aD) \cup Keys(cD) \cup Keys(eD)

\* importing the candidate, or reading its info, raises
FailsToLoad(m) ==
    /\ disk[m].isdir /\ m # PyCache
    /\ \/ ~disk[m].imports
       \/ disk[m].hasInfo /\ disk[m].hasModule /\ ~disk[m].infoIsMap

\* the candidate is a directory whose module imports and declares type t with
\* an info mapping and a Module attribute
Loadable(m, t) ==
    /\ disk[m].isdir /\ m # PyCache
    /\ disk[m].imports /\ disk[m].hasInfo /\ disk[m].infoIsMap /\ disk[m].hasModule
    /\ disk[m].type = t

\* the Pending descriptors of the loadable candidates of type t, in listing
\* order, of the listing without its failing candidates
ExpectedDict(t) ==
    LET others == SelectSeq(module_folders, LAMBDA m : ~FailsToLoad(m))
        kept == SelectSeq(others, LAMBDA m : Loadable(m, t))
    IN  [k \in 1..Len(kept) |-> NewDescriptor(kept[k], disk[kept[k]])]

\* C7: no exception leaves load_modules, and once it has returned no failing
\* candidate is in any of the three dictionaries, which hold exactly what the
\* listing without the failing candidates yields, in the same order.
C7_LoadFailureIsolated ==
    /\ exc # "load"
    /\ Returned("load") =>
           /\ \A k \in 1..Len(module_folders) :
                  FailsToLoad(module_folders[k]) => module_folders[k] \notin AllKeys
           /\ aD = ExpectedDict("redelk_alarm")
           /\ cD = ExpectedDict("redelk_connector")
           /\ eD = ExpectedDict("redelk_enrich")

\* load_modules has returned; the second of three candidates failed to load
\* and the first and the third were registered
C7_Witness ==
    /\ Returned("load")
    /\ FailsToLoad(module_folders[2])
    /\ module_folders[1] \in AllKeys
    /\ module_folders[3] \in AllKeys

-----------------------------------------------------------------------------
(* C8: a candidate without the required surface is excluded *)

InRoleTypes(m) == disk[m].type \in RoleTypes

\* C8 as stated: a candidate with no info, with a type that is none of the
\* three, or with no Module exposing run() / send_alarm() is in none of the
\* dictionaries.
C8_AsStated ==
    Returned("load") =>
        \A k \in 1..Len(module_folders) :
            LET m == module_folders[k]
            IN  (~disk[m].hasInfo \/ ~InRoleTypes(m) \/ ~disk[m].hasModule
                 \/ ~disk[m].hasRole) => m \notin AllKeys

\* C8 (amended): no exception leaves load_modules, and once it has returned a
\* candidate with no info attribute, no Module attribute, or a type that is
\* none of the three is in none of the dictionaries; the Module attribute is not
\* inspected, so a candidate that lacks only run() / send_alarm() is registered
\* under its declared type.
C8_SurfaceRequired ==
    /\ exc # "load"
    /\ Returned("load") =>
           \A k \in 1..Len(module_folders) :
               LET m == module_folders[k]
               IN  /\ (~disk[m].hasInfo \/ ~InRoleTypes(m) \/ ~disk[m].hasModule)
                          => m \notin AllKeys
                   /\ (\E t \in RoleTypes : Loadable(m, t)) /\ ~disk[m].hasRole
                          => m \in AllKeys

\* load_modules has returned from a listing with a candidate without info, a
\* candidate without Module and a candidate whose Module has no run()
C8_Witness ==
    /\ Returned("load")
    /\ \E k \in 1..Len(module_folders) :
         module_folders[k] # PyCache /\ disk[module_folders[k]].imports
         /\ disk[module_folders[k]].isdir /\ ~disk[module_folders[k]].hasInfo
    /\ \E k \in 1..Len(module_folders) :
         module_folders[k] # PyCache /\ disk[module_folders[k]].imports
         /\ disk[module_folders[k]].isdir /\ ~disk[module_folders[k]].hasModule
    /\ \E k \in 1..Len(module_folders) :
         module_folders[k] \in AllKeys /\ ~disk[module_folders[k]].hasRole

-----------------------------------------------------------------------------
(* C9: enrichment tags every hit and reports their number *)

\* run() of the enrichment returned
RunReturned(stage, m) == \E k \in Calls("run", stage, m) : log[k].x = "ok"

\* the outcome C9 describes for the enrichment descriptor d
Enriched(d) ==
    /\ d.status = "success"
    /\ d.result # <<>>
    /\ LET N == d.result[1].hits.total
           tags == Calls("setTags", "enrich", d.name)
           reports == Calls("moduleDidRun", "enrich", d.name)
       IN  /\ Len(d.result[1].hits.hits) = N
           /\ Cardinality(tags) = N
           /\ \A h \in 1..N :
                  /\ Cardinality({ k \in tags : log[k].n = d.result[1].hits.hits[h].id
                                                /\ log[k].s = d.info.submodule }) = 1
                  /\ d.result[1].hits.hits[h].tags = {d.info.submodule}
           /\ Cardinality(reports) = 1
           /\ \A k \in reports : log[k].s = "success" /\ log[k].n = N

-----------------------------------------------------------------------------
(* C10: the alarm stage reports hits.total *)

\* C10: in every state, every report of outcome success made by run_alarms
\* carries the hits.total of the ResultSet stored for that alarm, and an alarm
\* whose run() returned has exactly one such report.
C10_AlarmReportsTotal ==
    /\ \A k \in 1..Len(log) :
           (log[k].op = "moduleDidRun" /\ log[k].stage = "alarm" /\ log[k].s = "success")
               => /\ Lookup(aD, log[k].m).result # <<>>
                  /\ log[k].n = Lookup(aD, log[k].m).result[1].hits.total
    /\ \A k \in 1..Len(aD) :
           RunReturned("alarm", aD[k].name) =>
               Cardinality({ j \in Calls("moduleDidRun", "alarm", aD[k].name) :
                               log[j].s = "success" }) = 1

\* two alarms returned ResultSets of different size and each was reported with
\* its own hits.total
C10_Witness ==
    /\ Returned("alarm")
    /\ Len(aD) = 2
    /\ aD[1].status = "success" /\ aD[1].result[1].hits.total = 2
    /\ aD[2].status = "success" /\ aD[2].result[1].hits.total = 1
    /\ \E k \in Calls("moduleDidRun", "alarm", aD[1].name) : log[k].n = 2
    /\ \E k \in Calls("moduleDidRun", "alarm", aD[2].name) : log[k].n = 1

-----------------------------------------------------------------------------
(* C11: what a connector receives *)

\* the hits of a grouped hit list, group after group
RECURSIVE Ungroup(_)
Ungroup(groups) ==
    IF groups = <<>> THEN <<>> ELSE groups[1].hits \o Ungroup(Tail(groups))

\* the hit carries the tag and, merged under the alarm's name, the mutation the
\* ResultSet holds for its id
Prepared(hit, result, tag) ==
    /\ tag \in hit.tags
    /\ hit.id \in DOMAIN result.mutations
           => <<tag, result.mutations[hit.id]>> \in hit.alarm

\* C11: every ResultSet handed to a connector's send_alarm belongs to an enabled
\* alarm with status Success and was handed to an enabled connector; it holds
\* each hit of the alarm exactly once, every hit carrying the alarm's tag and,
\* if its id is in mutations, that mutation's data; its hits.hits is the
\* result of grouping the stored, tagged hits by the alarm's groupby fields;
\* and its hits.total is the positive total the alarm reported when it ran.
C11_DispatchPayload ==
    \A k \in 1..Len(sent) :
        LET d == Lookup(aD, sent[k].alarm)
            payload == sent[k].r
            tag == d.info.submodule
            flat == Ungroup(payload.hits.hits)
        IN  /\ enabled_in(alarms, d.name) /\ d.status = "success"
            /\ enabled_in(notifications, sent[k].connector)
            /\ payload.hits.total > 0
            /\ payload.hits.total = d.result[1].hits.total
            /\ \E j \in Calls("moduleDidRun", "alarm", d.name) :
                   log[j].s = "success" /\ log[j].n = payload.hits.total
            /\ payload.hits.hits = groupHits(d.result[1].hits.hits, payload.groupby)
            /\ payload.groupby = d.result[1].groupby
            /\ payload.mutations = d.result[1].mutations
            /\ Len(flat) = payload.hits.total
            /\ { flat[h].id : h \in 1..Len(flat) } = 1..payload.hits.total
            /\ \A h \in 1..Len(flat) : Prepared(flat[h], payload, tag)
            /\ \A g \in 1..Len(payload.hits.hits) :
                   \A h \in 1..Len(payload.hits.hits[g].hits) :
                       GroupKey(payload.hits.hits[g].hits[h], payload.groupby)
                           = payload.hits.hits[g].key

\* a connector received the ResultSet of an alarm that returned two hits, a
\* mutation for the first of them and groupby host: two groups, total still 2,
\* the first hit carrying the mutation and both carrying the tag
C11_Witness ==
    \E k \in 1..Len(sent) :
        /\ sent[k].r.hits.total = 2
        /\ sent[k].r.mutations = (1 :> Note)
        /\ sent[k].r.groupby = <<"host">>
        /\ Len(sent[k].r.hits.hits) = 2
        /\ <<SubmoduleOf(sent[k].alarm), Note>> \in sent[k].r.hits.hits[1].hits[1].alarm
        /\ SubmoduleOf(sent[k].alarm) \in sent[k].r.hits.hits[2].hits[1].tags

-----------------------------------------------------------------------------
(* C12: a hit without a mutation is treated as one with an empty mutation *)

\* the ResultSet with the id mapped to an empty mutation object
WithEmptyMutation(result, id) == [result EXCEPT !.mutations = (id :> {}) @@ @]

\* two runs of the processing of one alarm made the same calls with the same
\* outcome and left the same hits in the stored result and in the copy
SameOutcome(p, q) ==
    /\ p.raised = q.raised /\ p.loop = q.loop
    /\ p.d.result[1].hits = q.d.result[1].hits
    /\ (p.r = <<>>) = (q.r = <<>>)
    /\ p.r # <<>> => p.r[1].hits = q.r[1].hits
    /\ Len(p.events) = Len(q.events)
    /\ \A k \in 1..Len(p.events) :
           /\ p.events[k].op = q.events[k].op
           /\ p.events[k].n = q.events[k].n
           /\ p.events[k].x = q.events[k].x

\* C12: for the alarm process_alarms is about to process and every hit of it
\* whose id is absent from mutations, the mutation passed to addAlarmData is the
\* empty one, as it is when the id is mapped to an empty mutation, and the
\* processing has the same outcome in both cases whichever helper raises; and
\* in every state a hit that was merged without a mutation of its own carries
\* the empty mutation under the alarm's name.
C12_MutationDefault ==
    /\ (pc = "dispatch" /\ idx <= Len(aD) /\ WillProcess(aD[idx])
        /\ aD[idx].result # <<>>) =>
           LET d == aD[idx]
               stored == d.result[1]
           IN  \A h \in 1..Len(stored.hits.hits) :
                   LET hit == stored.hits.hits[h]
                       mapped == [d EXCEPT !.result[1] = WithEmptyMutation(@, hit.id)]
                   IN  hit.id \notin DOMAIN stored.mutations =>
                           /\ mutation_of(stored, hit) = {}
                           /\ mutation_of(mapped.result[1], hit) = {}
                           /\ \A f \in DispatchFailures(stored) :
                                  SameOutcome(process_hits(d, f), process_hits(mapped, f))
    /\ \A k \in 1..Len(aD) :
           Calls("setTags", "dispatch", aD[k].name) # {} =>
               \A h \in 1..Len(aD[k].result[1].hits.hits) :
                   LET hit == aD[k].result[1].hits.hits[h]
                   IN  hit.id \notin DOMAIN aD[k].result[1].mutations =>
                           hit.alarm = {<<aD[k].info.submodule, {}>>}

\* process_alarms has returned after processing an alarm whose first hit has a
\* mutation and whose second hit has none: addAlarmData was called for the
\* second with the default and it carries the empty mutation
C12_Witness ==
    /\ pc = "done"
    /\ \E k \in 1..Len(aD) :
         /\ aD[k].result # <<>>
         /\ aD[k].result[1].mutations = (1 :> Note)
         /\ aD[k].result[1].hits.total = 2
         /\ \E j \in Calls("addAlarmData", "dispatch", aD[k].name) :
                log[j].s = "default" /\ log[j].n = 2 /\ log[j].x = "ok"
         /\ aD[k].result[1].hits.hits[2].alarm = {<<aD[k].info.submodule, {}>>}
         /\ aD[k].result[1].hits.hits[1].alarm = {<<aD[k].info.submodule, Note>>}

-----------------------------------------------------------------------------
(* C13: what load_modules returns *)

\* no key occurs twice in the dictionary
UniqueKeys(D) == Cardinality(Keys(D)) = Len(D)

\* the descriptor is as discovery creates it
Fresh(d) == d.status = "pending" /\ d.result = <<>>

\* C13: once load_modules has returned, every registered name is a key of
\* exactly one of the three dictionaries, the one of the type its info
\* declares, and every descriptor of every dictionary has status Pending and
\* no result.
C13_RegisteredOnce ==
    Returned("load") =>
        /\ UniqueKeys(aD) /\ UniqueKeys(cD) /\ UniqueKeys(eD)
        /\ \A m \in AllKeys :
               /\ m \in Keys(aD) <=> disk[m].type = "redelk_alarm"
               /\ m \in Keys(cD) <=> disk[m].type = "redelk_connector"
               /\ m \in Keys(eD) <=> disk[m].type = "redelk_enrich"
               /\ Cardinality({ D \in {"a", "c", "e"} :
                                  m \in Keys(CASE D = "a" -> aD [] D = "c" -> cD
                                               [] D = "e" -> eD) }) = 1
        /\ \A k \in 1..Len(aD) : Fresh(aD[k]) /\ aD[k].info.type = "redelk_alarm"
        /\ \A k \in 1..Len(cD) : Fresh(cD[k]) /\ cD[k].info.type = "redelk_connector"
        /\ \A k \in 1..Len(eD) : Fresh(eD[k]) /\ eD[k].info.type = "redelk_enrich"

\* load_modules has returned with one module registered in each of the three
\* dictionaries
C13_Witness ==
    /\ Returned("load")
    /\ Len(aD) = 1 /\ Len(cD) = 1 /\ Len(eD) = 1

-----------------------------------------------------------------------------
(* C14: the status of a descriptor *)

\* a step leaves the status of every descriptor of the dictionary alone or
\* takes it from Pending to Success or Error, and removes no descriptor
StatusStep(D, E) ==
    /\ Keys(D) \subseteq Keys(E)
    /\ \A m \in Keys(D) :
           Lookup(D, m).status # Lookup(E, m).status =>
               /\ Lookup(D, m).status = "pending"
               /\ Lookup(E, m).status \in {"success", "error"}

\* the module was instantiated and run at most once in its run stage, and in
\* that stage only
RunAtMostOnce(stage, m) ==
    /\ Cardinality(Calls("Module", stage, m)) <= 1
    /\ Cardinality(Calls("run", stage, m)) <= 1
    /\ \A k \in 1..Len(log) :
           (log[k].op = "run" /\ log[k].m = m) => log[k].stage = stage

\* C14: every step leaves the status of each enrichment and alarm descriptor
\* alone or takes it from Pending to Success or from Pending to Error, so a
\* status changes at most once and Success and Error are final; and in every
\* state each module's Module() and run() were invoked at most once.
C14_StatusTransition ==
    /\ [][StatusStep(eD, eD') /\ StatusStep(aD, aD')]_vars
    /\ [](/\ \A k \in 1..Len(eD) : RunAtMostOnce("enrich", eD[k].name)
          /\ \A k \in 1..Len(aD) : RunAtMostOnce("alarm", aD[k].name))

\* the invocation has ended after an alarm whose run() raised, left with
\* status Error and run once, was followed by an alarm that ran to Success and
\* was sent to a connector
C14_Witness ==
    /\ pc = "done"
    /\ Len(aD) = 2
    /\ aD[1].status = "error" /\ Cardinality(Calls("run", "alarm", aD[1].name)) = 1
    /\ Raising("run", "alarm", aD[1].name) # {}
    /\ enabled_in(alarms, aD[1].name)
    /\ aD[2].status = "success" /\ SentFor(aD[2].name) # {}

-----------------------------------------------------------------------------
(* C15: every enabled connector receives every alarm with hits, once *)

\* the calls op made to connector c for alarm a
ConnectorCalls(op, a, c) == { k \in Calls(op, "dispatch", a) : log[k].s = c }

\* the alarm is enabled, ran successfully and has hits
Deliverable(d) ==
    /\ enabled_in(alarms, d.name)
    /\ d.status = "success"
    /\ d.result # <<>>
    /\ d.result[1].hits.total > 0

\* every enabled connector was instantiated once and its send_alarm invoked
\* once for the alarm, and no other connector was touched
FannedOut(d) ==
    \A c \in 1..Len(cD) :
        IF cD[c].name \in DOMAIN notifications /\ notifications[cD[c].name].enabled
        THEN /\ Cardinality(ConnectorCalls("Module", d.name, cD[c].name)) = 1
             /\ Cardinality(ConnectorCalls("send_alarm", d.name, cD[c].name)) = 1
        ELSE /\ ConnectorCalls("Module", d.name, cD[c].name) = {}
             /\ ConnectorCalls("send_alarm", d.name, cD[c].name) = {}

NoConnectorRaised ==
    \A k \in 1..Len(log) :
        (log[k].stage = "dispatch" /\ log[k].op \in {"Module", "send_alarm"})
            => log[k].x = "ok"

NoDispatchRaise == \A k \in 1..Len(log) : log[k].stage = "dispatch" => log[k].x = "ok"

-----------------------------------------------------------------------------
(* C16: an exception of a connector ends the invocation *)

\* the calls to a connector that raised
ConnectorFailures ==
    { k \in 1..Len(log) : /\ log[k].stage = "dispatch"
                          /\ log[k].op \in {"Module", "send_alarm"}
                          /\ log[k].x = "raise" }

\* C16: in every state in which a connector's Module() or send_alarm has
\* raised, that call is the last call of the invocation, the exception has
\* left process_alarms and ended the process, no connector after it in
\* iteration order was called for the same alarm, and every alarm after it in
\* iteration order has had no call of the dispatch stage made for it, was
\* handed to no connector and holds its result as run() returned it; and every
\* ResultSet a connector received was handed over by a logged send_alarm.
C16_ConnectorFailurePropagates ==
    /\ Len(sent) = Cardinality({ k \in 1..Len(log) : log[k].op = "send_alarm" })
    /\ \A k \in ConnectorFailures :
           /\ k = Len(log)
           /\ pc = "crashed" /\ exc = "dispatch"
           /\ aD[idx].name = log[k].m /\ cD[conn].name = log[k].s
           /\ \A c \in (conn + 1)..Len(cD) :
                  /\ ConnectorCalls("Module", log[k].m, cD[c].name) = {}
                  /\ ConnectorCalls("send_alarm", log[k].m, cD[c].name) = {}
           /\ \A a \in (idx + 1)..Len(aD) :
                  /\ DispatchCalls(aD[a].name) = {}
                  /\ SentFor(aD[a].name) = {}
                  /\ Untouched(aD[a])

\* the send_alarm of the first of two enabled connectors raised: the process
\* has ended and the second connector was not called
C16_RemainingConnectorWitness ==
    /\ pc = "crashed"
    /\ Len(aD) = 1 /\ Len(cD) = 2
    /\ \A c \in 1..2 : enabled_in(notifications, cD[c].name)
    /\ conn = 1
    /\ \E k \in ConnectorFailures : log[k].op = "send_alarm"

\* the instantiation of the connector raised for the first of two deliverable
\* alarms: the second alarm was not processed
C16_Witness ==
    /\ pc = "crashed"
    /\ Len(aD) = 2 /\ idx = 1
    /\ enabled_in(alarms, aD[2].name) /\ aD[2].status = "success"
    /\ aD[2].result[1].hits.total > 0
    /\ \E k \in ConnectorFailures : log[k].op = "Module"

-----------------------------------------------------------------------------
(* C17: process_alarms merges, then tags, then copies *)

\* every call of the first set was made before every call of the second
Before(first, second) == \A i \in first : \A j \in second : i < j

\* the hit carries alarm data merged under the name
Merged(hit, alarm_name) == \E x \in hit.alarm : x[1] = alarm_name

\* C17: in every state and for every alarm, every addAlarmData call precedes
\* the one setTags call, which precedes the one deep copy; when setTags was
\* called, addAlarmData had been called once for each hit of the stored result,
\* in order, and each stored hit carries the alarm data; when the copy was
\* taken, setTags had returned and each stored hit carries the alarm data and
\* the tag, and so does each hit of the copy being sent; and once
\* process_alarms has returned, the copy was taken for every enabled alarm with
\* status Success, whether or not a connector is enabled.
C17_MutateThenTag ==
    /\ \A k \in 1..Len(aD) :
           LET d == aD[k]
               merges == Calls("addAlarmData", "dispatch", d.name)
               tags == Calls("setTags", "dispatch", d.name)
               copies == Calls("deepcopy", "dispatch", d.name)
           IN  /\ Before(merges, tags) /\ Before(tags, copies) /\ Before(merges, copies)
               /\ Cardinality(tags) <= 1 /\ Cardinality(copies) <= 1
               /\ merges # {} => WillProcess(d)
               /\ tags # {} =>
                      /\ Cardinality(merges) = Len(d.result[1].hits.hits)
                      /\ \A i \in merges : log[i].x = "ok"
                      /\ \A i, j \in merges : i < j => log[i].n < log[j].n
                      /\ \A h \in 1..Len(d.result[1].hits.hits) :
                             /\ \E i \in merges : log[i].n = d.result[1].hits.hits[h].id
                             /\ Merged(d.result[1].hits.hits[h], d.info.submodule)
               /\ copies # {} =>
                      /\ \E j \in tags : log[j].x = "ok" /\ log[j].s = d.info.submodule
                      /\ \A h \in 1..Len(d.result[1].hits.hits) :
                             /\ Merged(d.result[1].hits.hits[h], d.info.submodule)
                             /\ d.info.submodule \in d.result[1].hits.hits[h].tags
               /\ (pc = "done" /\ WillProcess(d)) => copies # {}
    /\ pc = "send" =>
           \A h \in 1..Len(Ungroup(r[1].hits.hits)) :
               /\ Merged(Ungroup(r[1].hits.hits)[h], aD[idx].info.submodule)
               /\ aD[idx].info.submodule \in Ungroup(r[1].hits.hits)[h].tags

\* process_alarms has returned with no connector enabled after merging,
\* tagging and copying the two hits of an enabled alarm
C17_Witness ==
    /\ pc = "done"
    /\ \A c \in 1..Len(cD) : ~enabled_in(notifications, cD[c].name)
    /\ sent = <<>>
    /\ \E k \in 1..Len(aD) :
         /\ Cardinality(Calls("addAlarmData", "dispatch", aD[k].name)) = 2
         /\ Calls("deepcopy", "dispatch", aD[k].name) # {}
         /\ \A h \in 1..2 : aD[k].info.submodule \in aD[k].result[1].hits.hits[h].tags

-----------------------------------------------------------------------------
(* C18: one pass, which ends unless a call into a module never returns *)

\* a call into a module has not returned
Hung == pc = "hung"

\* the calls that mark the visit of a module by a stage
Visits(op, stage, m) == Cardinality(Calls(op, stage, m))

\* no candidate was imported twice, no module was visited twice by a run stage
\* and no alarm was processed twice by the dispatch stage
AtMostOnePass ==
    /\ \A k \in 1..Len(module_folders) : Visits("import", "load", module_folders[k]) <= 1
    /\ \A k \in 1..Len(eD) : Visits("shouldModuleRun", "enrich", eD[k].name) <= 1
    /\ \A k \in 1..Len(aD) :
           /\ Visits("shouldModuleRun", "alarm", aD[k].name) <= 1
           /\ Visits("deepcopy", "dispatch", aD[k].name) <= 1

\* every stage visited each of its descriptors exactly once
OnePass ==
    /\ \A k \in 1..Len(module_folders) : Visits("import", "load", module_folders[k]) = 1
    /\ \A k \in 1..Len(eD) : Visits("shouldModuleRun", "enrich", eD[k].name) = 1
    /\ \A k \in 1..Len(aD) :
           /\ Visits("shouldModuleRun", "alarm", aD[k].name) = 1
           /\ WillProcess(aD[k]) => Visits("deepcopy", "dispatch", aD[k].name) = 1
    /\ Len(log) = Cardinality({ k \in 1..Len(log) : log[k].stage = "load" })
          + Cardinality({ k \in 1..Len(log) : \E j \in 1..Len(eD) :
                            log[k].stage = "enrich" /\ log[k].m = eD[j].name })
          + Cardinality({ k \in 1..Len(log) : \E j \in 1..Len(aD) :
                            log[k].stage \in {"alarm", "dispatch"}
                            /\ log[k].m = aD[j].name })

\* the module after the one whose call has not returned was not visited
NoLaterModule ==
    Hung =>
        /\ log[Len(log)].x = "hang"
        /\ \A k \in 1..(Len(log) - 1) : log[k].x # "hang"
        /\ log[Len(log)].stage = "enrich" =>
               /\ \A j \in (idx + 1)..Len(eD) : \A k \in 1..Len(log) :
                      log[k].stage = "load" \/ log[k].m # eD[j].name
               /\ \A k \in 1..Len(log) : log[k].stage \notin {"alarm", "dispatch"}
        /\ log[Len(log)].stage = "alarm" =>
               /\ \A j \in (idx + 1)..Len(aD) : \A k \in 1..Len(log) :
                      log[k].stage = "load" \/ log[k].m # aD[j].name
               /\ \A k \in 1..Len(log) : log[k].stage # "dispatch"
        /\ log[Len(log)].stage = "dispatch" =>
               /\ \A j \in (idx + 1)..Len(aD) : DispatchCalls(aD[j].name) = {}
               /\ \A c \in (conn + 1)..Len(cD) :
                      ConnectorCalls("Module", aD[idx].name, cD[c].name) = {}

C18_BlockedWitness ==
    /\ Hung
    /\ Len(aD) = 2 /\ idx = 1
    /\ log[Len(log)].op = "run" /\ log[Len(log)].stage = "alarm"

-----------------------------------------------------------------------------
(* C19: a descriptor with status Success holds a result *)

\* the descriptor holds a result, stored from a run() that returned, with as
\* many hits as its hits.total
HoldsResult(stage, d) ==
    /\ d.result # <<>>
    /\ RunReturned(stage, d.name)
    /\ Flat(d.result[1])

\* C19: in every state, every enrichment and alarm descriptor with status
\* Success holds a result, stored from a run() of the module that returned;
\* a descriptor holds a result only if its run() returned; and the alarm
\* process_alarms is about to process, and every alarm it has made a call
\* for, holds a result.
C19_SuccessHasResult ==
    /\ \A k \in 1..Len(eD) :
           /\ eD[k].status = "success" => HoldsResult("enrich", eD[k])
           /\ eD[k].result # <<>> => RunReturned("enrich", eD[k].name)
    /\ \A k \in 1..Len(aD) :
           /\ aD[k].status = "success" => HoldsResult("alarm", aD[k])
           /\ aD[k].result # <<>> => RunReturned("alarm", aD[k].name)
           /\ DispatchCalls(aD[k].name) # {} => aD[k].result # <<>>
    /\ \A k \in 1..Len(cD) : cD[k].status = "pending" /\ cD[k].result = <<>>
    /\ (pc \in {"dispatch", "send"} /\ idx <= Len(aD) /\ WillProcess(aD[idx]))
           => aD[idx].result # <<>>

\* process_alarms has returned after processing an alarm with status Success,
\* while an enabled alarm whose success report raised holds a result with
\* status Error and an enrichment whose tagging raised does too
C19_Witness ==
    /\ pc = "done"
    /\ Len(aD) = 2 /\ Len(eD) = 1
    /\ aD[1].status = "error" /\ aD[1].result # <<>> /\ enabled_in(alarms, aD[1].name)
    /\ aD[2].status = "success" /\ Calls("deepcopy", "dispatch", aD[2].name) # {}
    /\ eD[1].status = "error" /\ eD[1].result # <<>>

-----------------------------------------------------------------------------
(* C20: the run log agrees with the statuses *)

\* no call to moduleDidRun raised in the stage
ReportsReturned(stage) ==
    \A k \in 1..Len(log) :
        (log[k].stage = stage /\ log[k].op = "moduleDidRun") => log[k].x = "ok"

\* shouldModuleRun returned false for the module
Declined(stage, m) == \E k \in Calls("shouldModuleRun", stage, m) : log[k].s = "false"

\* C20: once a run stage has returned with no call to moduleDidRun having
\* raised, every module of the stage was asked once whether to run; a module
\* for which shouldModuleRun returned true was instantiated once and has
\* exactly one moduleDidRun report, whose outcome is its status, Success or
\* Error; a module for which it returned false was not instantiated or run,
\* has no report, no result and status Pending.
C20_RunLogConsistency ==
    \A stage \in {"enrich", "alarm"} :
        (Returned(stage) /\ ReportsReturned(stage)) =>
            \A k \in 1..Len(DictOf(stage)) :
                LET d == DictOf(stage)[k]
                    reports == Calls("moduleDidRun", stage, d.name)
                IN  /\ Cardinality(Calls("shouldModuleRun", stage, d.name)) = 1
                    /\ Eligible(stage, d.name) \/ Declined(stage, d.name)
                    /\ Eligible(stage, d.name) =>
                           /\ Cardinality(Calls("Module", stage, d.name)) = 1
                           /\ Cardinality(reports) = 1
                           /\ d.status \in {"success", "error"}
                           /\ \A j \in reports : log[j].s = d.status
                    /\ Declined(stage, d.name) =>
                           /\ Calls("Module", stage, d.name) = {}
                           /\ Calls("run", stage, d.name) = {}
                           /\ reports = {}
                           /\ d.status = "pending" /\ d.result = <<>>

\* both run stages have returned: an enrichment was declined, the run() of
\* one alarm raised and was reported as an error, and another alarm was
\* reported as a success
C20_Witness ==
    /\ Returned("alarm")
    /\ ReportsReturned("enrich") /\ ReportsReturned("alarm")
    /\ Len(eD) = 1 /\ Len(aD) = 2
    /\ Declined("enrich", eD[1].name) /\ eD[1].status = "pending"
    /\ Raising("run", "alarm", aD[1].name) # {}
    /\ \E j \in Calls("moduleDidRun", "alarm", aD[1].name) : log[j].s = "error"
    /\ aD[2].status = "success"
    /\ \E j \in Calls("moduleDidRun", "alarm", aD[2].name) : log[j].s = "success"

=============================================================================
